---- MODULE Spec2Model ----
(***************************************************************************)
(* Verification model of the dashboard() component of                      *)
(* src/dashboard/static/js/app.js: the orchestrated fetch (fetchAll and    *)
(* its six fetchers), init, triggerScrape, the EventSource channel with    *)
(* its reconnect timers, the query-parameter construction, the chart data  *)
(* transformation of renderChart and the formatting helpers.               *)
(*                                                                         *)
(* All variables belong to one component.  The specifications run the      *)
(* same actions over them, each under the part of the environment it is    *)
(* about:                                                                  *)
(*   Spec        init, fetchAll, the six fetchers, the interval timer and  *)
(*               triggerScrape, from the constructed component;            *)
(*   SpecSSE     the channel's open and error handlers, the reconnect      *)
(*               timers and the clock, from the state in which init() has  *)
(*               called connectSSE();                                      *)
(*   SpecPush    the handlers of the first channel over the messages the   *)
(*               server sends, from the same state and with the clock at   *)
(*               rest;                                                     *)
(*   SpecParams  the filters and the requests built from them;             *)
(*   SpecChart   fetchActivity and renderChart over bounded row lists;     *)
(*   SpecHelpers formatNumber and timeAgo over bounded arguments;          *)
(*   LiveSSE     SpecSSE under the fairness of the clock, the timers and   *)
(*               the open signal.                                          *)
(* In SpecSSE, SpecPush, SpecParams and SpecChart the HTTP responses that  *)
(* the specification is not about stay outstanding; in Spec the            *)
(* $nextTick callbacks stay pending and the first channel stays silent.    *)
(***************************************************************************)
EXTENDS Naturals, Integers, Sequences, FiniteSets, TLC

VARIABLES
    sourceFilter,    \* this.sourceFilter
    searchQuery,     \* this.searchQuery
    store,           \* this.posts, stats, trends, sourceStats, runs, activityData
    sseConnected,    \* this.sseConnected
    loading,         \* this.loading
    lastUpdate,      \* this.lastUpdate: 0 is null, c the time call c completed
    initPc,          \* position of init(): "start", "await", "done"
    intervals,       \* number of setInterval timers armed
    calls,           \* the fetchAll invocations, in the order they were started
    triggers,        \* the triggerScrape invocations
    channels,        \* the EventSource instances, in construction order
    wire,            \* messages the server has sent and the browser not yet dispatched
    timers,          \* pending setTimeout reconnect timers
    errors,          \* the error events dispatched so far: channel and time
    now,             \* the clock, in milliseconds
    ticks,           \* pending $nextTick(renderChart) callbacks
    activityChart,   \* window._activityChart: 0 is undefined, else index in charts
    charts,          \* the Chart instances constructed so far
    payload,         \* the rows the server answers /api/posts/activity with
    canvas,          \* document.getElementById('activityChart') is not null
    uncaught,        \* number of exceptions that escaped a handler
    number,          \* the argument n of formatNumber
    isoStr,          \* the argument of timeAgo: <<>> is missing, <<t>> the time t in ms
    rendered         \* what formatNumber and timeAgo returned, "" before the call

vars == <<sourceFilter, searchQuery, store, sseConnected, loading, lastUpdate,
          initPc, intervals, calls, triggers, channels, wire, timers, errors,
          now, ticks, activityChart, charts, payload, canvas, uncaught, number, isoStr, rendered>>

fetchVars == <<store, loading, lastUpdate, calls, ticks>>
sseVars == <<sseConnected, channels, wire, timers, errors>>
chartVars == <<activityChart, charts>>

(***************************************************************************)
(* Bounds of the model.                                                    *)
(***************************************************************************)
MaxCalls == 2        \* fetchAll invocations in one behaviour
MaxTriggers == 1     \* triggerScrape invocations in one behaviour
MaxErrors == 2       \* channel error events in one behaviour
MaxWire == 2         \* server messages in flight at a time
MaxTime == 12500     \* the clock stops here
ClockStep == 2500    \* granularity of the clock
MaxRows == 3         \* rows in one activity response
Spread == 2          \* helper inputs lie this close to a threshold

(***************************************************************************)
(* The six fetchers, in the order of the Promise.all array.                *)
(***************************************************************************)
Fetchers == <<"posts", "stats", "trends", "sourceStats", "runs", "activityData">>

Queries == {Fetchers[i] : i \in 1..Len(Fetchers)}

\* What the network can do to one request.  "ok": fetch resolves and
\* res.json() resolves (whatever the HTTP status, which no fetcher reads);
\* "neterr": fetch rejects; "parseerr": fetch resolves and res.json() rejects.
Outcomes == {"ok", "neterr", "parseerr"}

Sources == {"reddit", "news"}

(***************************************************************************)
(* URLSearchParams: an ordered list of <<name, value>> pairs.              *)
(***************************************************************************)
ParamsHas(p, k) == \E i \in 1..Len(p) : p[i][1] = k

ParamsGet(p, k) == p[CHOOSE i \in 1..Len(p) : p[i][1] = k /\ \A j \in 1..(i-1) : p[j][1] # k][2]

ParamsSet(p, k, v) ==
    IF ParamsHas(p, k)
    THEN [i \in 1..Len(p) |-> IF p[i][1] = k THEN <<k, v>> ELSE p[i]]
    ELSE Append(p, <<k, v>>)

\* Fault variant: fetchPosts testing the filter for truthiness, not for 'all'.
PostsParamsTruthy(sf, sq) ==
    LET p0 == <<<<"limit", "50">>, <<"order", "desc">>, <<"sort", "engagement_score">>>>
        p1 == IF sf # "" THEN ParamsSet(p0, "source", sf) ELSE p0
        p2 == IF sq # "" THEN ParamsSet(p1, "search", sq) ELSE p1
    IN  p2

\* fetchPosts, up to the request it issues.
PostsParams(sf, sq) ==
    LET p0 == <<<<"limit", "50">>, <<"order", "desc">>, <<"sort", "engagement_score">>>>
        p1 == IF sf # "all" THEN ParamsSet(p0, "source", sf) ELSE p0
        p2 == IF sq # "" THEN ParamsSet(p1, "search", sq) ELSE p1
    IN  p2

\* fetchTrends, up to the request it issues.
TrendsParams(sf, sq) ==
    LET p0 == <<<<"limit", "15">>>>
        p1 == IF sf # "all" THEN ParamsSet(p0, "source", sf) ELSE p0
    IN  p1

(***************************************************************************)
(* fetchAll and the fetchers.                                              *)
(***************************************************************************)
\* The try/catch of a fetcher: what becomes of its request.
FetcherStatus(o) == IF o = "ok" THEN "ok" ELSE "failed"

\* Fault variant: a fetcher that resets its field when the body is malformed.
FetcherStoreDefault(s, c, q, o) ==
    IF o = "neterr" THEN s ELSE [s EXCEPT ![q] = IF o = "ok" THEN c ELSE 0]

\* Fault variant: a fetcher that drops the answer of an older call.
FetcherStoreNewest(s, c, q, o) == IF o = "ok" /\ c >= s[q] THEN [s EXCEPT ![q] = c] ELSE s

\* The assignment `this.<field> = await res.json()` of a fetcher of call c.
FetcherStore(s, c, q, o) == IF o = "ok" THEN [s EXCEPT ![q] = c] ELSE s

\* Fault variant: a fetcher without its catch clause.
FetcherPromiseNoCatch(st) ==
    IF st = "pending" THEN "pending" ELSE IF st = "failed" THEN "rejected" ELSE "fulfilled"

\* The promise a fetcher returns: its catch clause swallows the rejection.
FetcherPromise(st) == IF st = "pending" THEN "pending" ELSE "fulfilled"

\* Fault variant: Promise.race in the place of Promise.all.
PromiseAllRace(st) ==
    IF \E q \in Queries : FetcherPromise(st[q]) = "rejected" THEN "rejected"
    ELSE IF \E q \in Queries : FetcherPromise(st[q]) = "fulfilled" THEN "fulfilled"
    ELSE "pending"

\* Promise.all over the six fetcher promises.
PromiseAll(st) ==
    IF \E q \in Queries : FetcherPromise(st[q]) = "rejected" THEN "rejected"
    ELSE IF \A q \in Queries : FetcherPromise(st[q]) = "fulfilled" THEN "fulfilled"
    ELSE "pending"

InFlight == {c \in 1..Len(calls) : calls[c].result = "pending"}

\* The synchronous part of fetchAll(): loading is set and the six requests
\* are issued, the filtered two with the parameters of the current filters.
\* `by` names the caller, `overlap` the calls in flight at that moment and
\* `filters` the filter state the call read.
NewCall(by) ==
    [by |-> by,
     st |-> [q \in Queries |-> "pending"],
     result |-> "pending",
     overlap |-> InFlight,
     filters |-> [sourceFilter |-> sourceFilter, searchQuery |-> searchQuery],
     postsParams |-> PostsParams(sourceFilter, searchQuery),
     trendsParams |-> TrendsParams(sourceFilter, searchQuery)]

FetchAllStart(by) ==
    /\ Len(calls) < MaxCalls
    /\ loading' = TRUE
    /\ calls' = Append(calls, NewCall(by))
    /\ UNCHANGED <<store, lastUpdate, ticks>>

\* The request of fetcher q of call c settles with outcome o.
Settle(c, q, o) ==
    /\ calls[c].st[q] = "pending"
    /\ calls' = [calls EXCEPT ![c].st[q] = FetcherStatus(o)]
    /\ store' = FetcherStore(store, c, q, o)
    /\ ticks' = IF q = "activityData" /\ o = "ok" THEN ticks + 1 ELSE ticks
    /\ UNCHANGED <<loading, lastUpdate>>
    /\ UNCHANGED <<sourceFilter, searchQuery, initPc, intervals, triggers, now,
                   payload, canvas, uncaught, number, isoStr, rendered>>
    /\ UNCHANGED sseVars
    /\ UNCHANGED chartVars

\* Fault variant: fetchAll without `this.loading = false`.
FetchAllResumeKeepsFlag(c) ==
    /\ calls[c].result = "pending"
    /\ PromiseAll(calls[c].st) # "pending"
    /\ calls' = [calls EXCEPT ![c].result = PromiseAll(calls[c].st)]
    /\ IF PromiseAll(calls[c].st) = "fulfilled"
       THEN lastUpdate' = c /\ UNCHANGED loading
       ELSE UNCHANGED <<loading, lastUpdate>>
    /\ UNCHANGED <<store, ticks>>
    /\ UNCHANGED <<sourceFilter, searchQuery, initPc, intervals, triggers, now,
                   payload, canvas, uncaught, number, isoStr, rendered>>
    /\ UNCHANGED sseVars
    /\ UNCHANGED chartVars

\* The await of fetchAll() on Promise.all settles, and fetchAll runs to its end.
FetchAllResume(c) ==
    /\ calls[c].result = "pending"
    /\ PromiseAll(calls[c].st) # "pending"
    /\ calls' = [calls EXCEPT ![c].result = PromiseAll(calls[c].st)]
    /\ IF PromiseAll(calls[c].st) = "fulfilled"
       THEN loading' = FALSE /\ lastUpdate' = c
       ELSE UNCHANGED <<loading, lastUpdate>>
    /\ UNCHANGED <<store, ticks>>
    /\ UNCHANGED <<sourceFilter, searchQuery, initPc, intervals, triggers, now,
                   payload, canvas, uncaught, number, isoStr, rendered>>
    /\ UNCHANGED sseVars
    /\ UNCHANGED chartVars

(***************************************************************************)
(* init, the interval timer, connectSSE.                                   *)
(***************************************************************************)
NewChannel(cause) == [readyState |-> "CONNECTING", cause |-> cause, at |-> now]

\* init() up to its await: the first fetchAll.  It is call 1.
InitCall ==
    /\ initPc = "start"
    /\ FetchAllStart(<<"init", 0>>)
    /\ initPc' = "await"
    /\ UNCHANGED <<sourceFilter, searchQuery, intervals, triggers, now,
                   payload, canvas, uncaught, number, isoStr, rendered>>
    /\ UNCHANGED sseVars
    /\ UNCHANGED chartVars

\* Fault variant: init() without the await on its fetchAll.
InitResumeNoAwait ==
    /\ initPc = "await"
    /\ initPc' = "done"
    /\ channels' = Append(channels, NewChannel(0))
    /\ intervals' = intervals + 1
    /\ UNCHANGED <<sourceFilter, searchQuery, triggers, now, payload, canvas, uncaught,
                   number, isoStr, rendered>>
    /\ UNCHANGED <<sseConnected, wire, timers, errors>>
    /\ UNCHANGED fetchVars
    /\ UNCHANGED chartVars

\* init() after its await: connectSSE() and setInterval.
InitResume ==
    /\ initPc = "await"
    /\ calls[1].result = "fulfilled"
    /\ initPc' = "done"
    /\ channels' = Append(channels, NewChannel(0))
    /\ intervals' = intervals + 1
    /\ UNCHANGED <<sourceFilter, searchQuery, triggers, now, payload, canvas, uncaught, number, isoStr, rendered>>
    /\ UNCHANGED <<sseConnected, wire, timers, errors>>
    /\ UNCHANGED fetchVars
    /\ UNCHANGED chartVars

\* The setInterval callback.
Tick ==
    /\ intervals > 0
    /\ FetchAllStart(<<"tick", 0>>)
    /\ UNCHANGED <<sourceFilter, searchQuery, initPc, intervals, triggers, now,
                   payload, canvas, uncaught, number, isoStr, rendered>>
    /\ UNCHANGED sseVars
    /\ UNCHANGED chartVars

(***************************************************************************)
(* triggerScrape.                                                          *)
(***************************************************************************)
\* triggerScrape(source) up to its first await: the POST is issued.  The
\* source tag is part of the URL only and is not kept.
TriggerScrape(src) ==
    /\ initPc # "start"
    /\ Len(triggers) < MaxTriggers
    /\ triggers' = Append(triggers, [pc |-> "post", requests |-> 1, response |-> "none", call |-> 0])
    /\ UNCHANGED <<sourceFilter, searchQuery, initPc, intervals, now, payload, canvas, uncaught, number, isoStr, rendered>>
    /\ UNCHANGED fetchVars
    /\ UNCHANGED sseVars
    /\ UNCHANGED chartVars

\* Fault variant: triggerScrape refreshing whatever became of its POST.
TriggerNextAlways(o) == "await"

\* Where triggerScrape goes when its POST settles with outcome o: on to
\* fetchAll inside the try block, or into the catch clause.
TriggerNext(o) == IF o = "ok" THEN "await" ELSE "caught"

\* The POST of invocation t settles.
TriggerResponse(t, o) ==
    /\ triggers[t].pc = "post"
    /\ IF TriggerNext(o) = "await"
       THEN /\ FetchAllStart(<<"trigger", t>>)
            /\ triggers' = [triggers EXCEPT ![t].pc = "await", ![t].response = FetcherStatus(o),
                                             ![t].call = Len(calls) + 1]
       ELSE /\ triggers' = [triggers EXCEPT ![t].pc = TriggerNext(o),
                                             ![t].response = FetcherStatus(o)]
            /\ UNCHANGED fetchVars
    /\ UNCHANGED <<sourceFilter, searchQuery, initPc, intervals, now, payload, canvas, uncaught, number, isoStr, rendered>>
    /\ UNCHANGED sseVars
    /\ UNCHANGED chartVars

\* The await of triggerScrape on its fetchAll settles.
TriggerResume(t) ==
    /\ triggers[t].pc = "await"
    /\ calls[triggers[t].call].result # "pending"
    /\ triggers' = [triggers EXCEPT ![t].pc =
                       IF calls[triggers[t].call].result = "fulfilled" THEN "done" ELSE "caught"]
    /\ UNCHANGED <<sourceFilter, searchQuery, initPc, intervals, now, payload, canvas, uncaught, number, isoStr, rendered>>
    /\ UNCHANGED fetchVars
    /\ UNCHANGED sseVars
    /\ UNCHANGED chartVars

(***************************************************************************)
(* The initial state and the specification of the fetch orchestration.     *)
(***************************************************************************)
\* The activity rows of the end-to-end example: hours are strings, here the
\* digits <<day, hour tens, hour units>> of "2024-01-0d Thh:00:00".
SampleRows ==
    <<[source |-> "reddit", hour |-> <<1, 1, 0>>, count |-> 5],
      [source |-> "reddit", hour |-> <<1, 1, 1>>, count |-> 3],
      [source |-> "news", hour |-> <<1, 1, 1>>, count |-> 2]>>

\* No helper has been called.
HelpersIdle ==
    /\ number = 0
    /\ isoStr = <<>>
    /\ rendered = [formatNumber |-> "", timeAgo |-> ""]

Init ==
    /\ sourceFilter = "all"
    /\ searchQuery = ""
    /\ store = [q \in Queries |-> 0]
    /\ sseConnected = FALSE
    /\ loading = TRUE
    /\ lastUpdate = 0
    /\ initPc = "start"
    /\ intervals = 0
    /\ calls = <<>>
    /\ triggers = <<>>
    /\ channels = <<>>
    /\ wire = <<>>
    /\ timers = {}
    /\ errors = <<>>
    /\ now = 0
    /\ ticks = 0
    /\ activityChart = 0
    /\ charts = <<>>
    /\ payload = SampleRows
    /\ canvas = TRUE
    /\ uncaught = 0
    /\ HelpersIdle

Next ==
    \/ InitCall
    \/ InitResume
    \/ Tick
    \/ \E c \in 1..Len(calls), q \in Queries, o \in Outcomes : Settle(c, q, o)
    \/ \E c \in 1..Len(calls) : FetchAllResume(c)
    \/ \E src \in Sources : TriggerScrape(src)
    \/ \E t \in 1..Len(triggers), o \in Outcomes : TriggerResponse(t, o)
    \/ \E t \in 1..Len(triggers) : TriggerResume(t)

Spec == Init /\ [][Next]_vars

(***************************************************************************)
(* connectSSE: the handlers of an EventSource instance.  The instance is   *)
(* the browser's: it dispatches open in CONNECTING, message in OPEN, and   *)
(* error either when it gives up (CLOSED) or when it lost the connection   *)
(* and retries by itself (CONNECTING).  No handler closes an instance.     *)
(***************************************************************************)
ReconnectDelayMs == 5000

\* The payloads a message can carry (e.data).
Payloads ==
    {"", "oops", "null", "42", "\"scrape_complete\"", "[]", "{}",
     "{\"event\":\"heartbeat\"}", "{\"event\":\"scrape_complete\"}"}

\* JSON.parse on the payloads above: whether it throws, the kind of the
\* value, and the value of its `event` member when it has one.
JSONParse(text) ==
    CASE text = "null" -> [throws |-> FALSE, kind |-> "null", event |-> "undefined"]
      [] text = "42" -> [throws |-> FALSE, kind |-> "number", event |-> "undefined"]
      [] text = "\"scrape_complete\"" -> [throws |-> FALSE, kind |-> "string", event |-> "undefined"]
      [] text = "[]" -> [throws |-> FALSE, kind |-> "array", event |-> "undefined"]
      [] text = "{}" -> [throws |-> FALSE, kind |-> "object", event |-> "undefined"]
      [] text = "{\"event\":\"heartbeat\"}" -> [throws |-> FALSE, kind |-> "object", event |-> "heartbeat"]
      [] text = "{\"event\":\"scrape_complete\"}" -> [throws |-> FALSE, kind |-> "object", event |-> "scrape_complete"]
      [] OTHER -> [throws |-> TRUE, kind |-> "none", event |-> "undefined"]

\* Fault variant: a handler that refreshes on any object, whatever its tag.
OnMessageOutcomeAnyObject(data) ==
    IF data = "" THEN [fetchAll |-> FALSE, threw |-> FALSE]
    ELSE LET r == JSONParse(data)
         IN  IF r.throws \/ r.kind = "null"
             THEN [fetchAll |-> FALSE, threw |-> FALSE]
             ELSE [fetchAll |-> r.kind = "object", threw |-> FALSE]

\* es.onmessage on payload data: whether it calls fetchAll and whether an
\* exception leaves the handler.  Reading `.event` of null throws inside
\* the try block, as JSON.parse does on a malformed text.
OnMessageOutcome(data) ==
    IF data = "" THEN [fetchAll |-> FALSE, threw |-> FALSE]
    ELSE LET r == JSONParse(data)
         IN  IF r.throws \/ r.kind = "null"
             THEN [fetchAll |-> FALSE, threw |-> FALSE]
             ELSE [fetchAll |-> r.event = "scrape_complete", threw |-> FALSE]

\* es.onopen of channel ch.
OnOpen(ch) ==
    /\ channels[ch].readyState = "CONNECTING"
    /\ channels' = [channels EXCEPT ![ch].readyState = "OPEN"]
    /\ sseConnected' = TRUE
    /\ UNCHANGED <<wire, timers, errors>>
    /\ UNCHANGED <<sourceFilter, searchQuery, initPc, intervals, triggers, now,
                   payload, canvas, uncaught, number, isoStr, rendered>>
    /\ UNCHANGED fetchVars
    /\ UNCHANGED chartVars

\* The server writes a message with payload data to the stream of channel ch.
ServerSend(ch, data) ==
    /\ channels[ch].readyState = "OPEN"
    /\ Len(wire) < MaxWire
    /\ wire' = Append(wire, [ch |-> ch, data |-> data])
    /\ UNCHANGED <<sseConnected, channels, timers, errors>>
    /\ UNCHANGED <<sourceFilter, searchQuery, initPc, intervals, triggers, now,
                   payload, canvas, uncaught, number, isoStr, rendered>>
    /\ UNCHANGED fetchVars
    /\ UNCHANGED chartVars

\* es.onmessage of the channel the first message on the wire is for.
OnMessage ==
    /\ wire # <<>>
    /\ channels[Head(wire).ch].readyState = "OPEN"
    /\ wire' = Tail(wire)
    /\ IF OnMessageOutcome(Head(wire).data).fetchAll
       THEN FetchAllStart(<<"push", Head(wire).ch>>)
       ELSE UNCHANGED fetchVars
    /\ uncaught' = IF OnMessageOutcome(Head(wire).data).threw THEN uncaught + 1 ELSE uncaught
    /\ UNCHANGED <<sseConnected, channels, timers, errors>>
    /\ UNCHANGED <<sourceFilter, searchQuery, initPc, intervals, triggers, now,
                   payload, canvas, number, isoStr, rendered>>
    /\ UNCHANGED chartVars

\* Fault variant: a reconnect timer armed without its delay.
ReconnectTimerNow(e) == [err |-> e, due |-> now]

\* The timer es.onerror arms for error number e.
ReconnectTimer(e) == [err |-> e, due |-> now + ReconnectDelayMs]

\* es.onerror of channel ch; closed tells whether the instance gave up.
\* The messages still on the wire of a dropped connection are lost.
OnError(ch, closed) ==
    /\ channels[ch].readyState # "CLOSED"
    /\ Len(errors) < MaxErrors
    /\ channels' = [channels EXCEPT ![ch].readyState = IF closed THEN "CLOSED" ELSE "CONNECTING"]
    /\ wire' = SelectSeq(wire, LAMBDA m : m.ch # ch)
    /\ errors' = Append(errors, [ch |-> ch, at |-> now])
    /\ sseConnected' = FALSE
    /\ timers' = timers \cup {ReconnectTimer(Len(errors) + 1)}
    /\ UNCHANGED <<sourceFilter, searchQuery, initPc, intervals, triggers, now,
                   payload, canvas, uncaught, number, isoStr, rendered>>
    /\ UNCHANGED fetchVars
    /\ UNCHANGED chartVars

\* Fault variant: a timer callback that does not call connectSSE().
FireTimerDropped(t) ==
    /\ t \in timers
    /\ now >= t.due
    /\ timers' = timers \ {t}
    /\ UNCHANGED <<sseConnected, channels, wire, errors>>
    /\ UNCHANGED <<sourceFilter, searchQuery, initPc, intervals, triggers, now,
                   payload, canvas, uncaught, number, isoStr, rendered>>
    /\ UNCHANGED fetchVars
    /\ UNCHANGED chartVars

\* A reconnect timer fires: its callback calls connectSSE().
FireTimer(t) ==
    /\ t \in timers
    /\ now >= t.due
    /\ timers' = timers \ {t}
    /\ channels' = Append(channels, NewChannel(t.err))
    /\ UNCHANGED <<sseConnected, wire, errors>>
    /\ UNCHANGED <<sourceFilter, searchQuery, initPc, intervals, triggers, now,
                   payload, canvas, uncaught, number, isoStr, rendered>>
    /\ UNCHANGED fetchVars
    /\ UNCHANGED chartVars

\* Time passes.
Advance ==
    /\ now < MaxTime
    /\ now' = now + ClockStep
    /\ UNCHANGED <<sourceFilter, searchQuery, initPc, intervals, triggers,
                   payload, canvas, uncaught, number, isoStr, rendered>>
    /\ UNCHANGED fetchVars
    /\ UNCHANGED sseVars
    /\ UNCHANGED chartVars

\* The state in which init() has returned: its fetchAll has completed with
\* six answers, the first channel is constructed, the interval is armed and
\* the first render is pending.
PostInitBase ==
    /\ sourceFilter = "all"
    /\ searchQuery = ""
    /\ store = [q \in Queries |-> 1]
    /\ sseConnected = FALSE
    /\ loading = FALSE
    /\ lastUpdate = 1
    /\ initPc = "done"
    /\ intervals = 1
    /\ calls = <<[by |-> <<"init", 0>>, st |-> [q \in Queries |-> "ok"], result |-> "fulfilled", overlap |-> {},
                 filters |-> [sourceFilter |-> "all", searchQuery |-> ""],
                 postsParams |-> PostsParams("all", ""),
                 trendsParams |-> TrendsParams("all", "")]>>
    /\ triggers = <<>>
    /\ channels = <<[readyState |-> "CONNECTING", cause |-> 0, at |-> 0]>>
    /\ wire = <<>>
    /\ timers = {}
    /\ errors = <<>>
    /\ now = 0
    /\ ticks = 1
    /\ activityChart = 0
    /\ charts = <<>>
    /\ uncaught = 0

PostInit == PostInitBase /\ payload = SampleRows /\ canvas = TRUE /\ HelpersIdle

NextSSE ==
    \/ \E ch \in 1..Len(channels) : OnOpen(ch)
    \/ \E ch \in 1..Len(channels), closed \in BOOLEAN : OnError(ch, closed)
    \/ \E t \in timers : FireTimer(t)
    \/ Advance

SpecSSE == PostInit /\ [][NextSSE]_vars

NextPush ==
    \/ \E ch \in 1..Len(channels) : OnOpen(ch)
    \/ \E ch \in 1..Len(channels), data \in Payloads : ServerSend(ch, data)
    \/ OnMessage
    \/ \E ch \in 1..Len(channels), closed \in BOOLEAN : OnError(ch, closed)

\* The channel under the scheduling of the browser and a server that
\* accepts connections: the clock advances, a timer that is due fires, and
\* a connecting channel that is left alone opens.
LiveSSE ==
    /\ PostInit
    /\ [][NextSSE]_vars
    /\ WF_vars(Advance)
    /\ WF_vars(\E t \in timers : FireTimer(t))
    /\ WF_vars(\E ch \in 1..Len(channels) : OnOpen(ch))

SpecPush == PostInit /\ [][NextPush]_vars

(***************************************************************************)
(* The filters.  They are bound to inputs of the page, which assign them.  *)
(***************************************************************************)
SourceFilters == {"all", "", "reddit", "news"}

SearchQueries == {"", "ai", "all"}

\* Fault variant: a source filter that refetches when it is assigned.
SetSourceFilterRefetch(sf) ==
    /\ sourceFilter' = sf
    /\ FetchAllStart(<<"filter", 0>>)
    /\ UNCHANGED <<searchQuery, initPc, intervals, triggers, now, payload, canvas, uncaught,
                   number, isoStr, rendered>>
    /\ UNCHANGED sseVars
    /\ UNCHANGED chartVars

SetSourceFilter(sf) ==
    /\ sourceFilter' = sf
    /\ UNCHANGED <<searchQuery, initPc, intervals, triggers, now, payload, canvas, uncaught, number, isoStr, rendered>>
    /\ UNCHANGED fetchVars
    /\ UNCHANGED sseVars
    /\ UNCHANGED chartVars

SetSearchQuery(sq) ==
    /\ searchQuery' = sq
    /\ UNCHANGED <<sourceFilter, initPc, intervals, triggers, now, payload, canvas, uncaught, number, isoStr, rendered>>
    /\ UNCHANGED fetchVars
    /\ UNCHANGED sseVars
    /\ UNCHANGED chartVars

NextParams ==
    \/ \E sf \in SourceFilters : SetSourceFilter(sf)
    \/ \E sq \in SearchQueries : SetSearchQuery(sq)
    \/ Tick
    \/ \E src \in Sources : TriggerScrape(src)
    \/ \E t \in 1..Len(triggers), o \in Outcomes : TriggerResponse(t, o)

SpecParams == PostInit /\ [][NextParams]_vars

(***************************************************************************)
(* renderChart.  An hour is a string; strings are sequences of code units  *)
(* and Array.prototype.sort() without a comparator orders them by code     *)
(* unit.                                                                   *)
(***************************************************************************)
Hours == {<<1, 0, 9>>, <<1, 1, 0>>, <<2, 0, 9>>}

Counts == {2, 5}

RowValues == [source : Sources, hour : Hours, count : Counts]

RowSeqs == UNION {[1..n -> RowValues] : n \in 0..MaxRows}

\* this.activityData: the constructor's [] or the body of a response.
Rows(v) == IF v = 0 THEN <<>> ELSE payload

StrLess(a, b) ==
    \E i \in 1..Len(b) :
        /\ \A j \in 1..(i-1) : j <= Len(a) /\ a[j] = b[j]
        /\ (i > Len(a) \/ a[i] < b[i])

\* [...new Set(xs)]: the distinct elements, in order of first appearance.
RECURSIVE Distinct(_)
Distinct(xs) ==
    IF xs = <<>> THEN <<>>
    ELSE LET front == Distinct(SubSeq(xs, 1, Len(xs) - 1))
             x == xs[Len(xs)]
         IN  IF \E i \in 1..Len(front) : front[i] = x THEN front ELSE Append(front, x)

\* Array.prototype.sort() on strings.
RECURSIVE SortStrings(_)
SortStrings(xs) ==
    IF xs = <<>> THEN <<>>
    ELSE LET front == SortStrings(SubSeq(xs, 1, Len(xs) - 1))
             x == xs[Len(xs)]
             k == Cardinality({i \in 1..Len(front) : ~StrLess(x, front[i])})
         IN  SubSeq(front, 1, k) \o <<x>> \o SubSeq(front, k + 1, Len(front))

\* Fault variant: the hours sorted without the Set.
AllHoursNoSet(rows) == SortStrings([i \in 1..Len(rows) |-> rows[i].hour])

\* const allHours = [...new Set(this.activityData.map(r => r.hour))].sort()
AllHours(rows) == SortStrings(Distinct([i \in 1..Len(rows) |-> rows[i].hour]))

\* toLocaleTimeString with 2-digit hour and minute: the time of day, the
\* date dropped (in a locale at UTC; another locale shifts every hour alike).
TimeLabel(h) == SubSeq(h, 2, 3)

ChartLabels(rows) == [i \in 1..Len(AllHours(rows)) |-> TimeLabel(AllHours(rows)[i])]

\* Object.entries(sources): the source tags in order of first appearance.
SourceKeys(rows) == Distinct([i \in 1..Len(rows) |-> rows[i].source])

\* Fault variant: a grouping loop that keeps one hour map for all sources.
HourMapAnySource(rows, src, h) ==
    LET hits == {i \in 1..Len(rows) : rows[i].hour = h}
    IN  IF hits = {} THEN <<>>
        ELSE <<rows[CHOOSE i \in hits : \A j \in hits : j <= i].count>>

\* sources[src][h] after the grouping loop: <<count>> of the last row of
\* (src, h), or <<>> for undefined.
HourMap(rows, src, h) ==
    LET hits == {i \in 1..Len(rows) : rows[i].source = src /\ rows[i].hour = h}
    IN  IF hits = {} THEN <<>>
        ELSE <<rows[CHOOSE i \in hits : \A j \in hits : j <= i].count>>

\* hourMap[h] || 0
SeriesEntry(rows, src, h) ==
    IF HourMap(rows, src, h) = <<>> THEN 0
    ELSE IF HourMap(rows, src, h)[1] = 0 THEN 0
    ELSE HourMap(rows, src, h)[1]

Capitalize(src) ==
    CASE src = "reddit" -> "Reddit"
      [] src = "news" -> "News"
      [] src = "twitter" -> "Twitter"
      [] OTHER -> src

sourceColor(src) ==
    CASE src = "reddit" -> "#ff4500"
      [] src = "twitter" -> "#1d9bf0"
      [] src = "news" -> "#22c55e"
      [] OTHER -> "#8b5cf6"

ChartDatasets(rows) ==
    [k \in 1..Len(SourceKeys(rows)) |->
        [src |-> SourceKeys(rows)[k],
         label |-> Capitalize(SourceKeys(rows)[k]),
         data |-> [i \in 1..Len(AllHours(rows)) |->
                      SeriesEntry(rows, SourceKeys(rows)[k], AllHours(rows)[i])],
         borderColor |-> sourceColor(SourceKeys(rows)[k])]]

\* new Chart(canvas, ...) over the rows renderChart read.
NewChart(rows) ==
    [destroyed |-> FALSE,
     rows |-> rows,
     allHours |-> AllHours(rows),
     labels |-> ChartLabels(rows),
     datasets |-> ChartDatasets(rows)]

\* Fault variant: a bare reassignment that leaves the previous chart alive.
DestroyPreviousNever(cs, cur) == cs

\* window._activityChart.destroy(), when there is one.
DestroyPrevious(cs, cur) == IF cur # 0 THEN [cs EXCEPT ![cur].destroyed = TRUE] ELSE cs

\* A $nextTick callback runs renderChart().
RenderTick ==
    /\ ticks > 0
    /\ ticks' = ticks - 1
    /\ IF canvas
       THEN /\ charts' = Append(DestroyPrevious(charts, activityChart),
                                NewChart(Rows(store.activityData)))
            /\ activityChart' = Len(charts) + 1
       ELSE UNCHANGED chartVars
    /\ UNCHANGED <<store, loading, lastUpdate, calls>>
    /\ UNCHANGED <<sourceFilter, searchQuery, initPc, intervals, triggers, now,
                   payload, canvas, uncaught, number, isoStr, rendered>>
    /\ UNCHANGED sseVars

InitChart ==
    /\ PostInitBase
    /\ payload \in RowSeqs \cup {SampleRows}
    /\ canvas \in BOOLEAN
    /\ HelpersIdle

NextChart ==
    \/ Tick
    \/ \E c \in 1..Len(calls), o \in Outcomes : Settle(c, "activityData", o)
    \/ RenderTick

SpecChart == InitChart /\ [][NextChart]_vars

(***************************************************************************)
(* The helpers formatNumber and timeAgo.  Numbers are the doubles of the   *)
(* language: a quotient is the double nearest to it, and toFixed(1) is     *)
(* taken of that double.                                                   *)
(***************************************************************************)
RECURSIVE BitLength(_)
BitLength(q) == IF q = 0 THEN 0 ELSE 1 + BitLength(q \div 2)

\* The binary long division of r/den carried on for k more bits: the sign
\* of (nearest double - exact quotient), ties going to the even significand.
RECURSIVE DivTail(_, _, _, _)
DivTail(r, den, k, odd) ==
    IF k > 0 THEN DivTail((2 * r) % den, den, k - 1, (2 * r) \div den = 1)
    ELSE IF r = 0 THEN 0
    ELSE IF 2 * r > den THEN 1
    ELSE IF 2 * r < den THEN -1
    ELSE IF odd THEN 1 ELSE -1

\* num / den in doubles, for num >= den: the sign of its rounding error
\* (significands have 53 bits).
DoubleError(num, den) ==
    DivTail(num % den, den, 53 - BitLength(num \div den), (num \div den) % 2 = 1)

\* (num / den).toFixed(1): the tenths closest to the double, the larger of
\* two that are equally close.
ToFixed1(num, den) ==
    LET q == (10 * num) \div den
        r == (10 * num) % den
        t == IF 2 * r < den THEN q
             ELSE IF 2 * r > den THEN q + 1
             ELSE IF DoubleError(num, den) >= 0 THEN q + 1 ELSE q
    IN  ToString(t \div 10) \o "." \o ToString(t % 10)

\* Fault variant: the thresholds compared with > instead of >=.
formatNumberStrict(n) ==
    IF n > 1000000 THEN ToFixed1(n, 1000000) \o "M"
    ELSE IF n > 1000 THEN ToFixed1(n, 1000) \o "K"
    ELSE ToString(n)

formatNumber(n) ==
    IF n >= 1000000 THEN ToFixed1(n, 1000000) \o "M"
    ELSE IF n >= 1000 THEN ToFixed1(n, 1000) \o "K"
    ELSE ToString(n)

\* Fault variant: the minutes rounded to the nearest instead of floored.
timeAgoRounded(s, nowMs) ==
    IF s = <<>> THEN "N/A"
    ELSE LET diff == nowMs - s[1]
             mins == (diff + 30000) \div 60000
             hrs == mins \div 60
         IN  IF mins < 1 THEN "just now"
             ELSE IF mins < 60 THEN ToString(mins) \o "m ago"
             ELSE IF hrs < 24 THEN ToString(hrs) \o "h ago"
             ELSE ToString(hrs \div 24) \o "d ago"

\* timeAgo(isoStr) called when Date.now() is nowMs.
timeAgo(s, nowMs) ==
    IF s = <<>> THEN "N/A"
    ELSE LET diff == nowMs - s[1]
             mins == diff \div 60000
             hrs == mins \div 60
         IN  IF mins < 1 THEN "just now"
             ELSE IF mins < 60 THEN ToString(mins) \o "m ago"
             ELSE IF hrs < 24 THEN ToString(hrs) \o "h ago"
             ELSE ToString(hrs \div 24) \o "d ago"

\* The template calls formatNumber(number).
FormatNumber ==
    /\ rendered.formatNumber = ""
    /\ rendered' = [rendered EXCEPT !.formatNumber = formatNumber(number)]
    /\ UNCHANGED <<sourceFilter, searchQuery, initPc, intervals, triggers, now,
                   payload, canvas, uncaught, number, isoStr>>
    /\ UNCHANGED fetchVars
    /\ UNCHANGED sseVars
    /\ UNCHANGED chartVars

\* The template calls timeAgo(isoStr).
TimeAgo ==
    /\ rendered.timeAgo = ""
    /\ rendered' = [rendered EXCEPT !.timeAgo = timeAgo(isoStr, now)]
    /\ UNCHANGED <<sourceFilter, searchQuery, initPc, intervals, triggers, now,
                   payload, canvas, uncaught, number, isoStr>>
    /\ UNCHANGED fetchVars
    /\ UNCHANGED sseVars
    /\ UNCHANGED chartVars

\* The inputs: the values around the thresholds and around the ties of the
\* rounding, within Spread of each.
Around(anchors) == UNION {{a - k, a + k} : a \in anchors, k \in 0..Spread}

Numbers ==
    {0, 7, 42}
    \cup Around({997, 1000, 1050, 1150, 1250, 1949, 10000, 99950, 999950, 999997,
                 1000000, 1050000, 1150000, 1250000, 12345678})

\* Elapsed times in ms; a negative one is a timestamp in the future.
Elapsed ==
    Around({0, 59998, 60000, 90000, 3540000, 3599998, 3600000, 5400000,
            82800000, 86399998, 86400000, 172800000, 1209600000})

\* The clock stays at `now`; a timestamp d ms old is now - d.
IsoStrs == {<<>>} \cup {<<now - d>> : d \in Elapsed}

InitHelpers ==
    /\ PostInitBase
    /\ payload = SampleRows
    /\ canvas = TRUE
    /\ number \in Numbers
    /\ isoStr \in IsoStrs
    /\ rendered = [formatNumber |-> "", timeAgo |-> ""]

NextHelpers ==
    \/ FormatNumber
    \/ TimeAgo

SpecHelpers == InitHelpers /\ [][NextHelpers]_vars

(***************************************************************************)
(* Properties.                                                             *)
(***************************************************************************)
CallIds == 1..Len(calls)

\* Call c completes in this step.
Completes(c) == calls[c].result = "pending" /\ calls'[c].result # "pending"

\* Calls c and d were in flight at the same time.
Overlapped(c, d) == c \in calls[d].overlap \/ d \in calls[c].overlap

\* C1: when a query of any call settles as failed (its fetch rejected or its
\* body did not parse), none of the six fields changes in that step: the
\* field the query feeds keeps the value it had, and so does every other.
FailedQueryKeepsState ==
    [][\A c \in CallIds, q \in Queries :
          (calls[c].st[q] = "pending" /\ calls'[c].st[q] = "failed") => store' = store]_vars

\* A second call has failed in all six queries and every field still shows
\* what the first call fetched.
AllSixFailedStale ==
    /\ Len(calls) = 2
    /\ \A q \in Queries : calls[2].st[q] = "failed"
    /\ store = [q \in Queries |-> 1]

\* C2: no call ends with an error; a call that has completed has no query
\* pending; loading is cleared and lastUpdate written only in the step in
\* which a call completes, all six of its queries settled, and lastUpdate
\* then names that call.
FetchAllCompletion ==
    /\ [](\A c \in CallIds :
            /\ calls[c].result # "rejected"
            /\ calls[c].result = "fulfilled" => \A q \in Queries : calls[c].st[q] # "pending"
            /\ lastUpdate = c => calls[c].result = "fulfilled")
    /\ [][(lastUpdate' # lastUpdate \/ (loading /\ ~loading')) =>
             \E c \in CallIds :
                /\ Completes(c)
                /\ \A q \in Queries : calls[c].st[q] \in {"ok", "failed"}
                /\ calls'[c].result = "fulfilled"
                /\ lastUpdate' = c
                /\ loading' = FALSE]_vars

\* A call all six of whose queries failed has completed normally.
CompletedWithAllFailed ==
    \E c \in CallIds :
        /\ \A q \in Queries : calls[c].st[q] = "failed"
        /\ calls[c].result = "fulfilled"
        /\ lastUpdate = c
        /\ loading = FALSE

CallsBy(by) == {c \in CallIds : calls[c].by = by}

ReconnectPerError ==
    /\ [](\A e \in 1..Len(errors) :
            LET ts == {t \in timers : t.err = e}
                cs == {ch \in 1..Len(channels) : channels[ch].cause = e}
            IN  /\ Cardinality(ts) + Cardinality(cs) = 1
                /\ \A t \in ts : t.due = errors[e].at + ReconnectDelayMs
                /\ \A ch \in cs : channels[ch].at >= errors[e].at + ReconnectDelayMs)
    /\ [][Len(errors') > Len(errors) => sseConnected' = FALSE]_vars

\* A channel has been constructed for the first error while the flag is off.
ReconnectedAfterError ==
    \E ch \in 1..Len(channels) : channels[ch].cause = 1 /\ ~sseConnected

\* C5: at most one reconnect timer is pending.
AtMostOneReconnectTimer == Cardinality(timers) <= 1

RecognisedPayloads == {"{\"event\":\"scrape_complete\"}"}

\* The browser dispatches the first message on the wire in this step.
Dispatches == wire # <<>> /\ wire' = Tail(wire) /\ errors' = errors

\* C7: the dispatch of a message whose payload is non-empty and parses to an
\* object tagged 'scrape_complete' starts exactly one fetchAll; the dispatch
\* of any other payload changes nothing of the component, and in neither
\* case does an exception leave the handler.
MessageDispatch ==
    [][Dispatches =>
          /\ uncaught' = uncaught
          /\ UNCHANGED <<sourceFilter, searchQuery, sseConnected, channels, timers>>
          /\ IF Head(wire).data \in RecognisedPayloads
             THEN /\ Len(calls') = Len(calls) + 1
                  /\ calls'[Len(calls')].by = <<"push", Head(wire).ch>>
                  /\ \A c \in CallIds : calls'[c] = calls[c]
                  /\ UNCHANGED <<store, lastUpdate, ticks>>
             ELSE UNCHANGED <<store, loading, lastUpdate, calls, ticks>>]_vars

\* A push message has started a fetchAll.
PushRefreshed == \E c \in CallIds : calls[c].by[1] = "push"

ParamNames(p) == {p[i][1] : i \in 1..Len(p)}

\* C8: for every call, with the filters it read: the posts request carries
\* `source` exactly when sourceFilter is not 'all', and then sourceFilter;
\* it carries `search` exactly when searchQuery is not empty; the trends
\* request carries `source` under the same condition and never `search`;
\* limit=50, order=desc, sort=engagement_score (posts) and limit=15 (trends)
\* are always there, and no name occurs twice.
QueryParams ==
    \A c \in CallIds :
        LET sf == calls[c].filters.sourceFilter
            sq == calls[c].filters.searchQuery
            p == calls[c].postsParams
            t == calls[c].trendsParams
        IN  /\ ParamsHas(p, "source") <=> sf # "all"
            /\ ParamsHas(p, "source") => ParamsGet(p, "source") = sf
            /\ ParamsHas(p, "search") <=> sq # ""
            /\ ParamsHas(t, "source") <=> sf # "all"
            /\ ParamsHas(t, "source") => ParamsGet(t, "source") = sf
            /\ ~ParamsHas(t, "search")
            /\ {"limit", "order", "sort"} \subseteq ParamNames(p)
            /\ ParamsGet(p, "limit") = "50"
            /\ ParamsGet(p, "order") = "desc"
            /\ ParamsGet(p, "sort") = "engagement_score"
            /\ ParamsHas(t, "limit") /\ ParamsGet(t, "limit") = "15"
            /\ Len(p) = Cardinality(ParamNames(p))
            /\ Len(t) = Cardinality(ParamNames(t))

\* A call was started under a source filter and a search text.
FilteredCall ==
    \E c \in CallIds :
        /\ calls[c].filters = [sourceFilter |-> "reddit", searchQuery |-> "ai"]
        /\ Len(calls[c].postsParams) = 5

HoursOf(rows) == {rows[i].hour : i \in 1..Len(rows)}

\* C9: in every chart renderChart built, the hour axis is strictly
\* ascending in string order, has no duplicate, holds exactly the hours of
\* the rows, one entry per distinct hour, and the labels are as many.
HourAxis ==
    \A k \in 1..Len(charts) :
        LET ax == charts[k].allHours
        IN  /\ \A i \in 1..(Len(ax) - 1) : StrLess(ax[i], ax[i + 1])
            /\ \A i, j \in 1..Len(ax) : i # j => ax[i] # ax[j]
            /\ {ax[i] : i \in 1..Len(ax)} = HoursOf(charts[k].rows)
            /\ Len(ax) = Cardinality(HoursOf(charts[k].rows))
            /\ Len(charts[k].labels) = Len(ax)

\* A chart was built from three rows over two hours, the later hour first.
SharedHourChart ==
    \E k \in 1..Len(charts) :
        /\ Len(charts[k].rows) = 3
        /\ Len(charts[k].allHours) = 2
        /\ StrLess(charts[k].rows[3].hour, charts[k].rows[1].hour)

SourcesOf(rows) == {rows[i].source : i \in 1..Len(rows)}

\* C10: in every chart renderChart built, each source of the rows has
\* exactly one series, as long as the hour axis, whose entry at an axis hour
\* is the count of that source's row for the hour (of the last one, should
\* the rows repeat a pair) and 0 when it has none; no other series exists;
\* and the rows of the end-to-end example give the axis [10:00, 11:00],
\* reddit [5, 3] and news [0, 2].
SeriesPerSource ==
    \A k \in 1..Len(charts) :
        LET rows == charts[k].rows
            ax == charts[k].allHours
            ds == charts[k].datasets
        IN  /\ \A d \in 1..Len(ds) : ds[d].src \in SourcesOf(rows)
            /\ \A src \in SourcesOf(rows) :
                  /\ Cardinality({d \in 1..Len(ds) : ds[d].src = src}) = 1
                  /\ \A d \in 1..Len(ds) :
                        ds[d].src = src =>
                          /\ Len(ds[d].data) = Len(ax)
                          /\ \A i \in 1..Len(ax) :
                                LET hits == {r \in 1..Len(rows) :
                                               rows[r].source = src /\ rows[r].hour = ax[i]}
                                IN  IF hits = {} THEN ds[d].data[i] = 0
                                    ELSE \E r \in hits :
                                           /\ \A j \in hits : j <= r
                                           /\ ds[d].data[i] = rows[r].count
            /\ rows = SampleRows =>
                  /\ ax = <<<<1, 1, 0>>, <<1, 1, 1>>>>
                  /\ \E d \in 1..Len(ds) : ds[d].src = "reddit" /\ ds[d].data = <<5, 3>>
                  /\ \E d \in 1..Len(ds) : ds[d].src = "news" /\ ds[d].data = <<0, 2>>

\* The chart of the end-to-end example has been built.
ExampleChart == \E k \in 1..Len(charts) : charts[k].rows = SampleRows

LiveCharts == {k \in 1..Len(charts) : ~charts[k].destroyed}

\* C11: at most one chart instance is live (constructed and not destroyed),
\* and it is the one window._activityChart holds; the step that constructs
\* a chart leaves every earlier one destroyed and stores the new one.
SingleLiveChart ==
    /\ [](/\ Cardinality(LiveCharts) <= 1
          /\ LiveCharts = IF activityChart = 0 THEN {} ELSE {activityChart})
    /\ [][Len(charts') > Len(charts) =>
             /\ Len(charts') = Len(charts) + 1
             /\ \A k \in 1..Len(charts) : charts'[k].destroyed
             /\ ~charts'[Len(charts')].destroyed
             /\ activityChart' = Len(charts')]_vars

\* renderChart has run twice: the first chart is destroyed, the second held.
ChartReplaced ==
    /\ Len(charts) >= 2
    /\ charts[1].destroyed
    /\ ~charts[2].destroyed
    /\ activityChart = 2

\* t tenths written with one decimal place.
OneDecimal(t) == ToString(t \div 10) \o "." \o ToString(t % 10)

\* The tenths within half a tenth of number/unit.
NearestTenths(unit) ==
    {t \in ((10 * number) \div unit)..((10 * number) \div unit + 1) :
        /\ 2 * (10 * number - t * unit) <= unit
        /\ 2 * (t * unit - 10 * number) <= unit}

\* C12: formatNumber of a non-negative integer n: below 1000 its decimal
\* digits; from 1000 to 999999 the tenths nearest to n/1000, written with
\* one decimal place and 'K'; from 1000000 on the tenths nearest to
\* n/1000000, with one decimal place and 'M'; 999 gives '999', 1000 gives
\* '1.0K' and 1000000 gives '1.0M'.
FormatNumberRendering ==
    rendered.formatNumber # "" =>
        /\ number < 1000 => rendered.formatNumber = ToString(number)
        /\ (number >= 1000 /\ number <= 999999) =>
              \E t \in NearestTenths(1000) : rendered.formatNumber = OneDecimal(t) \o "K"
        /\ number >= 1000000 =>
              \E t \in NearestTenths(1000000) : rendered.formatNumber = OneDecimal(t) \o "M"
        /\ number = 999 => rendered.formatNumber = "999"
        /\ number = 1000 => rendered.formatNumber = "1.0K"
        /\ number = 1000000 => rendered.formatNumber = "1.0M"

\* The largest number below a million has been rendered.
RenderedBelowMillion == number = 999999 /\ rendered.formatNumber = "1000.0K"

\* C13: timeAgo of a timestamp d ms before now: 'just now' for d under one
\* minute; '<m>m ago' with m the whole minutes of d from 1 to 59 minutes;
\* '1h ago' at exactly 60 minutes; '<h>h ago' with h the whole hours of d
\* from 1 to 23 hours; '<days>d ago' with the whole days of d from 24 hours
\* on; and 'N/A' for a missing timestamp.
TimeAgoRendering ==
    rendered.timeAgo # "" =>
        IF isoStr = <<>> THEN rendered.timeAgo = "N/A"
        ELSE LET d == now - isoStr[1]
             IN  /\ d < 60000 => rendered.timeAgo = "just now"
                 /\ (d >= 60000 /\ d < 3600000) =>
                       rendered.timeAgo = ToString(d \div 60000) \o "m ago"
                 /\ d = 3600000 => rendered.timeAgo = "1h ago"
                 /\ (d >= 3600000 /\ d < 86400000) =>
                       rendered.timeAgo = ToString(d \div 3600000) \o "h ago"
                 /\ d >= 86400000 =>
                       rendered.timeAgo = ToString(d \div 86400000) \o "d ago"

\* A timestamp exactly sixty minutes old has been rendered.
RenderedOneHour == isoStr = <<now - 3600000>> /\ rendered.timeAgo = "1h ago"

\* C14: the first fetchAll is init's; no channel exists and no interval
\* timer is armed until that call has completed with all six queries
\* settled; the first channel is constructed and the timer armed in the one
\* step in which init() resumes, and no second interval timer is ever armed.
InitOrder ==
    /\ [](/\ initPc = "start" => calls = <<>>
          /\ initPc # "start" => calls[1].by = <<"init", 0>>
          /\ initPc # "done" => channels = <<>> /\ intervals = 0
          /\ initPc = "done" =>
                /\ calls[1].result = "fulfilled"
                /\ \A q \in Queries : calls[1].st[q] # "pending"
                /\ Len(channels) >= 1
                /\ channels[1].cause = 0
                /\ intervals = 1)
    /\ [][(Len(channels') > Len(channels) \/ intervals' # intervals) =>
             /\ initPc = "await" /\ initPc' = "done"
             /\ calls[1].result = "fulfilled"
             /\ channels = <<>> /\ Len(channels') = 1
             /\ intervals = 0 /\ intervals' = 1]_vars

\* init() has returned after a first fetchAll one of whose queries failed.
InitReturned ==
    /\ initPc = "done"
    /\ calls[1].st["posts"] = "failed"
    /\ Len(channels) = 1
    /\ intervals = 1

\* Query q of call c resolves successfully in this step.
Resolves(c, q) == calls[c].st[q] = "pending" /\ calls'[c].st[q] = "ok"

\* C15: a successful query writes its field whichever call it belongs to
\* and whatever the field holds, and a field changes in no other step: each
\* field shows the answer that resolved last, also when that is the answer
\* to the call that was started first.
LastWriteWins ==
    /\ [][\A c \in CallIds, q \in Queries : Resolves(c, q) => store'[q] = c]_vars
    /\ [][\A q \in Queries :
             store'[q] # store[q] => \E c \in CallIds : Resolves(c, q)]_vars
    /\ [](\A q \in Queries : store[q] # 0 => calls[store[q]].st[q] = "ok")

\* Two overlapping calls have completed, all queries successful: one field
\* holds the answer to the first call and another the answer to the second.
MixedSnapshot ==
    /\ Len(calls) = 2
    /\ Overlapped(1, 2)
    /\ \A c \in {1, 2} : calls[c].result = "fulfilled" /\ \A q \in Queries : calls[c].st[q] = "ok"
    /\ store["posts"] = 1
    /\ store["stats"] = 2

Hung(c) == {q \in Queries : calls[c].st[q] = "pending"}

\* C17: while a query of a call has not settled, another query of the call
\* that resolves writes its field all the same; the call stays in flight,
\* does not complete, has not written lastUpdate, and a step that clears
\* loading is the completion of another call.
HungQuery ==
    /\ [](\A c \in CallIds :
            Hung(c) # {} =>
               /\ calls[c].result = "pending"
               /\ lastUpdate # c)
    /\ [][\A c \in CallIds :
             Hung(c) # {} =>
                /\ ~Completes(c)
                /\ \A q \in Hung(c) : (Resolves(c, q) /\ Hung(c) # {q}) => store'[q] = c
                /\ (loading /\ ~loading') => \E d \in CallIds : d # c /\ Completes(d)]_vars

\* Five queries of the second call have written their fields and the sixth
\* is outstanding: the call has not cleared loading nor written lastUpdate.
FiveOfSixWritten ==
    /\ Len(calls) = 2
    /\ Hung(2) = {"runs"}
    /\ \A q \in Queries \ {"runs"} : store[q] = 2
    /\ store["runs"] = 1
    /\ loading
    /\ lastUpdate = 1

\* C19: whenever a fetchAll call is in flight, loading is true.
LoadingWhileInFlight == InFlight # {} => loading

\* C16: at most one channel instance can still dispatch events.
SingleActiveChannel ==
    Cardinality({ch \in 1..Len(channels) : channels[ch].readyState # "CLOSED"}) <= 1

\* C18: every channel error whose reconnect delay ends within the horizon of
\* the clock leads to a channel constructed for it, with no action of the
\* user; and every channel that is connecting leads to sseConnected being
\* true unless that channel gives up, whatever number of errors came before.
SelfHealing ==
    /\ \A e \in 1..MaxErrors :
          (IF Len(errors) >= e THEN errors[e].at + ReconnectDelayMs <= MaxTime ELSE FALSE)
             ~> (\E ch \in 1..Len(channels) : channels[ch].cause = e)
    /\ \A ch \in 1..(MaxErrors + 1) :
          (IF Len(channels) >= ch THEN channels[ch].readyState = "CONNECTING" ELSE FALSE)
             ~> (sseConnected
                 \/ IF Len(channels) >= ch THEN channels[ch].readyState = "CLOSED" ELSE FALSE)

\* The first channel and the one built for its error both gave up, and the
\* channel built for the second error is open.
HealedAfterTwoFailures ==
    /\ Len(channels) >= 3
    /\ channels[1].readyState = "CLOSED"
    /\ channels[2].readyState = "CLOSED" /\ channels[2].cause = 1
    /\ channels[3].readyState = "OPEN" /\ channels[3].cause = 2
    /\ sseConnected

\* The value the request parameters p carry under name k, <<>> when absent.
ParamOf(p, k) == IF ParamsHas(p, k) THEN <<ParamsGet(p, k)>> ELSE <<>>

\* C20: the posts and the trends request of a call carry the same source,
\* that of the sourceFilter current when fetchAll was called, and the posts
\* request the search text current at that moment; a step that changes a
\* filter leaves every call and its requests, the triggers and the six
\* fields as they were.
FilterSnapshot ==
    /\ [](\A c \in CallIds :
            ParamOf(calls[c].postsParams, "source") = ParamOf(calls[c].trendsParams, "source"))
    /\ [][Len(calls') > Len(calls) =>
             LET new == calls'[Len(calls')]
             IN  /\ new.filters = [sourceFilter |-> sourceFilter, searchQuery |-> searchQuery]
                 /\ ParamOf(new.postsParams, "source") =
                       IF sourceFilter = "all" THEN <<>> ELSE <<sourceFilter>>
                 /\ ParamOf(new.trendsParams, "source") =
                       IF sourceFilter = "all" THEN <<>> ELSE <<sourceFilter>>
                 /\ ParamOf(new.postsParams, "search") =
                       IF searchQuery = "" THEN <<>> ELSE <<searchQuery>>]_vars
    /\ [][(sourceFilter' # sourceFilter \/ searchQuery' # searchQuery) =>
             /\ calls' = calls
             /\ triggers' = triggers
             /\ store' = store
             /\ loading' = loading]_vars

\* A call started with no filter is in flight and the filters have changed
\* since: its requests carry neither source nor search.
StaleFilterInFlight ==
    \E c \in InFlight :
        /\ calls[c].filters = [sourceFilter |-> "all", searchQuery |-> ""]
        /\ sourceFilter = "reddit"
        /\ searchQuery = "ai"
        /\ ParamOf(calls[c].postsParams, "source") = <<>>
        /\ ParamOf(calls[c].postsParams, "search") = <<>>

====
